---- MODULE Spec2Model ----
(***************************************************************************)
(* Model of backend/app.py: the symptom-detection and diagnostic-gap       *)
(* pipeline of the clinical interview assistant.                           *)
(*                                                                         *)
(* Strings whose characters matter (transcripts, symptom ids, the text     *)
(* returned by the question-generation service) are sequences of           *)
(* one-character strings; check ids and messages are plain strings.        *)
(***************************************************************************)
EXTENDS Integers, Sequences, FiniteSets, TLC

VARIABLES
    nlp,               \* the spaCy model loaded at startup (TRUE) or None (FALSE)
    knowledge_base,    \* knowledge_base['symptoms']: ordered <<id, spec>> entries
    pc,                \* position of the request being served
    op,                \* the handler serving it
    request,           \* the request's JSON body / files
    transcript,        \* process_interview: local transcript
    detected_symptoms, \* process_interview: local detected_symptoms
    gaps,              \* process_interview: local gaps
    response,          \* the (status, body) pair returned to the caller
    calls,             \* how often each stage / collaborator ran in this request
    running,           \* the server thread that is executing
    threads            \* the other server threads' requests, as they were left

vars == <<nlp, knowledge_base, pc, op, request, transcript, detected_symptoms,
          gaps, response, calls, running, threads>>

----------------------------------------------------------------------------
(* Bounds *)

MaxTranscriptLen == 2
MaxSymptoms == 2
MaxDetected == 2

----------------------------------------------------------------------------
(* Strings *)

Alphabet == {"a", "A", "_", " "}

RECURSIVE StringsUpTo(_)
StringsUpTo(n) ==
    IF n = 0 THEN {<<>>}
    ELSE LET shorter == StringsUpTo(n - 1)
         IN  shorter \cup {Append(s, c) : s \in {t \in shorter : Len(t) = n - 1}, c \in Alphabet}

\* str.lower(), character by character
LowerChar(c) == IF c = "A" THEN "a" ELSE c

\* the transcript used as it came, without lowercasing
lower_Omitted(s) == s

lower(s) == [i \in 1..Len(s) |-> LowerChar(s[i])]

\* str.replace(old, new) for one-character old and new
replace(s, old, new) == [i \in 1..Len(s) |-> IF s[i] = old THEN new ELSE s[i]]

\* Python's  sub in s  on strings
StrIn(sub, s) ==
    \E i \in 0..(Len(s) - Len(sub)) : SubSeq(s, i + 1, i + Len(sub)) = sub

\* Python's  x in list
ListIn(x, list) == \E i \in 1..Len(list) : list[i] = x

\* dict.get(key, default) on a JSON object modelled as a record
Get(data, key, default) == IF key \in DOMAIN data THEN data[key] ELSE default

----------------------------------------------------------------------------
(* The knowledge base document *)

SymptomIds == {<<"a">>, <<"_", "a">>, <<"A">>}

\* A symptom spec: a mapping with a required_checks list, or (the document is
\* not validated on load) a mapping without one.
SymptomSpecs ==
    {[required_checks |-> <<>>],
     [required_checks |-> <<"duration">>],
     [required_checks |-> <<"duration", "severity">>],
     [description |-> "x"]}

RECURSIVE KnowledgeBases(_)
KnowledgeBases(n) ==
    IF n = 0 THEN {<<>>}
    ELSE LET shorter == KnowledgeBases(n - 1)
         IN  shorter \cup
             {Append(k, <<id, sp>>) :
                 k \in {t \in shorter : Len(t) = n - 1},
                 id \in SymptomIds, sp \in SymptomSpecs}

Keys(kb) == {kb[i][1] : i \in 1..Len(kb)}

\* A JSON object has one entry per key.
DistinctKeys(kb) == \A i, j \in 1..Len(kb) : kb[i][1] = kb[j][1] => i = j

\* knowledge_base['symptoms'][symptom]
Lookup(kb, symptom) == kb[CHOOSE i \in 1..Len(kb) : kb[i][1] = symptom][2]

load_knowledge_base == {kb \in KnowledgeBases(MaxSymptoms) : DistinctKeys(kb)}

----------------------------------------------------------------------------
(* Symptom detection: the loop of extract_symptoms and process_interview *)

RECURSIVE DetectFrom(_, _, _)
DetectFrom(kb, i, transcript_lower) ==
    IF i > Len(kb) THEN <<>>
    ELSE LET symptom_key == kb[i][1]
             symptom_display == replace(symptom_key, "_", " ")
             rest == DetectFrom(kb, i + 1, transcript_lower)
         IN  IF StrIn(symptom_display, transcript_lower)
             THEN <<symptom_key>> \o rest
             ELSE rest

DetectSymptoms(kb, text) == DetectFrom(kb, 1, lower(text))

----------------------------------------------------------------------------
(* Gap analysis *)

EmptyDict == [x \in {} |-> <<>>]

\* d[key] = value on a dict modelled as a function
DictSet(d, key, value) ==
    [x \in DOMAIN d \cup {key} |-> IF x = key THEN value ELSE d[x]]

\* the loop body without its membership test
InKnowledgeBase_Untested(kb, symptom) == TRUE

\* if symptom in knowledge_base['symptoms']
InKnowledgeBase(kb, symptom) == symptom \in Keys(kb)

\* knowledge_base['symptoms'][symptom]['required_checks'] raises KeyError
\* unless both subscripts exist
HasRequiredChecks(kb, symptom) ==
    symptom \in Keys(kb) /\ "required_checks" \in DOMAIN Lookup(kb, symptom)

\* the coverage of the symptom never looked up
Covered_Ignored(covered_fields, symptom) == <<>>

\* covered_fields.get(symptom, [])
Covered(covered_fields, symptom) == Get(covered_fields, symptom, <<>>)

\* the comprehension with its test inverted:  if check in covered
RECURSIVE Missing_KeepsCovered(_, _)
Missing_KeepsCovered(required, covered) ==
    IF required = <<>> THEN <<>>
    ELSE LET check == Head(required)
             rest == Missing_KeepsCovered(Tail(required), covered)
         IN  IF ListIn(check, covered) THEN <<check>> \o rest ELSE rest

\* [check for check in required if check not in covered]
RECURSIVE Missing(_, _)
Missing(required, covered) ==
    IF required = <<>> THEN <<>>
    ELSE LET check == Head(required)
             rest == Missing(Tail(required), covered)
         IN  IF ~ListIn(check, covered) THEN <<check>> \o rest ELSE rest

\* The loop of gap_analysis from position i, with the locals gaps and
\* missing_checks_list so far; raised is set when the loop body raises KeyError.
RECURSIVE GapLoop(_, _, _, _, _, _)
GapLoop(kb, detected, covered_fields, i, g, list) ==
    IF i > Len(detected) THEN [raised |-> FALSE, gaps |-> g, missing_checks_list |-> list]
    ELSE LET symptom == detected[i]
         IN  IF InKnowledgeBase(kb, symptom)
             THEN IF ~HasRequiredChecks(kb, symptom)
                  THEN [raised |-> TRUE, gaps |-> g, missing_checks_list |-> list]
                  ELSE LET required == Lookup(kb, symptom).required_checks
                           covered == Covered(covered_fields, symptom)
                           missing == Missing(required, covered)
                       IN  IF missing # <<>>
                           THEN GapLoop(kb, detected, covered_fields, i + 1,
                                        DictSet(g, symptom, missing), list \o missing)
                           ELSE GapLoop(kb, detected, covered_fields, i + 1, g, list)
             ELSE GapLoop(kb, detected, covered_fields, i + 1, g, list)

\* list(set(xs)): the distinct elements, in an order the language leaves open
Range(xs) == {xs[i] : i \in 1..Len(xs)}

\* list(xs) in place of list(set(xs)): nothing deduplicated
ListOfSet_Undeduplicated(xs) == {xs}

ListOfSet(xs) ==
    LET S == Range(xs)
    IN  {l \in [1..Cardinality(S) -> S] : Range(l) = S}

\* Step 3 of process_interview
RECURSIVE InitialGapLoop(_, _, _, _)
InitialGapLoop(kb, detected, i, g) ==
    IF i > Len(detected) THEN [raised |-> FALSE, gaps |-> g]
    ELSE LET symptom == detected[i]
         IN  IF InKnowledgeBase(kb, symptom)
             THEN IF ~HasRequiredChecks(kb, symptom)
                  THEN [raised |-> TRUE, gaps |-> g]
                  ELSE InitialGapLoop(kb, detected, i + 1,
                           DictSet(g, symptom, Lookup(kb, symptom).required_checks))
             ELSE InitialGapLoop(kb, detected, i + 1, g)

----------------------------------------------------------------------------
(* Parsing the text returned by the question-generation service *)

Whitespace == {" ", "\n"}
Digits == {"0", "1", "2", "3", "4", "5", "6", "7", "8", "9"}

\* str.strip()
RECURSIVE lstrip(_)
lstrip(s) == IF s # <<>> /\ Head(s) \in Whitespace THEN lstrip(Tail(s)) ELSE s

RECURSIVE rstrip(_)
rstrip(s) ==
    IF s # <<>> /\ s[Len(s)] \in Whitespace THEN rstrip(SubSeq(s, 1, Len(s) - 1)) ELSE s

strip(s) == rstrip(lstrip(s))

\* index of the first occurrence of character c in s, 0 when there is none
FirstIndex(s, c) ==
    IF \E i \in 1..Len(s) : s[i] = c
    THEN CHOOSE i \in 1..Len(s) : s[i] = c /\ \A j \in 1..(i - 1) : s[j] # c
    ELSE 0

\* str.split(sep): always at least one piece
RECURSIVE split(_, _)
split(s, sep) ==
    LET k == FirstIndex(s, sep)
    IN  IF k = 0 THEN <<s>>
        ELSE <<SubSeq(s, 1, k - 1)>> \o split(SubSeq(s, k + 1, Len(s)), sep)

\* s[:n]
Prefix(s, n) == SubSeq(s, 1, IF Len(s) < n THEN Len(s) ELSE n)

\* the body of the parsing loop for one line: the questions it appends
ParseLine(raw) ==
    LET line == strip(raw)
    IN  IF line # <<>> /\ Len(line) > 5
        THEN LET unnumbered ==
                     IF Head(line) \in Digits /\ ListIn(".", Prefix(line, 3))
                     THEN strip(SubSeq(line, FirstIndex(line, ".") + 1, Len(line)))
                     ELSE line
             IN  IF unnumbered # <<>> THEN <<unnumbered>> ELSE <<>>
        ELSE <<>>

RECURSIVE ParseLines(_)
ParseLines(lines) ==
    IF lines = <<>> THEN <<>> ELSE ParseLine(Head(lines)) \o ParseLines(Tail(lines))

\* for line in response_text.strip().split('\n'): ...
ParseQuestions(response_text) == ParseLines(split(strip(response_text), "\n"))

\* Texts the question-generation service may return
TextEmpty ==
    <<>>

TextShortLines ==
    <<"O", "k", "?", "\n", " ", "\n", "1", ".", " ", "a">>

TextThree ==
    <<"1", ".", " ", "W", "h", "e", "n", "?", "\n", "\n", " ", "2", ".", " ", "W", "h", "e", "r", "e", "?", " ", "\n", "S", "e", "v", "e", "r", "e", "?">>

TextSix ==
    <<"1", ".", " ", "O", "n", "s", "e", "t", "?", "\n", "2", ".", " ", "W", "h", "e", "r", "e", "?", "\n", "3", ".", " ", "F", "e", "v", "e", "r", "?", "\n", "4", ".", " ", "C", "o", "u", "g", "h", "?", "\n", "5", ".", " ", "D", "r", "u", "g", "s", "?", "\n", "6", ".", " ", "S", "m", "o", "k", "e", "?">>

TextOddPrefix ==
    <<"3", "a", ".", "m", ".", " ", "p", "a", "i", "n", "?", "\n", "1", "0", ".", " ", "N", "a", "u", "s", "e", "a", "?", "\n", "1", ".", "5", " ", "m", "g", "?">>

GeminiTexts == {TextEmpty, TextShortLines, TextThree, TextSix, TextOddPrefix}

----------------------------------------------------------------------------
(* Requests, collaborator outcomes and responses *)

\* A JSON request: is_json is FALSE when the request carries no JSON body
\* (request.json is then unusable and the handler's first data.get raises).
Json(data) == [is_json |-> TRUE, json |-> data]
NoJson == [is_json |-> FALSE, json |-> [none |-> TRUE]]

NoRequest == [none |-> TRUE]
NoResponse == [status |-> 0, body |-> [none |-> TRUE]]
\* calls counts the runs of each stage and collaborator within the request;
\* transcriber and gemini record what the collaborator did when called,
\* gemini_text the text it returned.
NoCalls == [transcribe |-> 0, nlp |-> 0, detect |-> 0, gap |-> 0, generate |-> 0,
            transcriber |-> "none", gemini |-> "none", gemini_text |-> <<>>]

Respond(status, body) == [status |-> status, body |-> body]

Strings == StringsUpTo(MaxTranscriptLen)

\* Symptom names a caller may send: the ids a knowledge base may hold and one
\* that no knowledge base holds.
UnknownSymptom == <<"z">>
CallerSymptoms == SymptomIds \cup {UnknownSymptom}

RECURSIVE ListsUpTo(_, _)
ListsUpTo(S, n) ==
    IF n = 0 THEN {<<>>}
    ELSE LET shorter == ListsUpTo(S, n - 1)
         IN  shorter \cup {Append(l, x) : l \in {t \in shorter : Len(t) = n - 1}, x \in S}

CoveredLists == {<<"duration">>, <<"severity", "duration">>}

CoverageMaps ==
    UNION {[S -> CoveredLists] : S \in SUBSET {<<"a">>, <<"_", "a">>}}

\* Entities the NLP model may report: (text, label_, start_char, end_char)
Ent(text, label, start, end) == [text |-> text, label |-> label, start |-> start, end |-> end]

EntityLists ==
    {<<>>,
     <<Ent("a", "ENTITY", 0, 1)>>,
     <<Ent("a", "ENTITY", 0, 1), Ent("a", "ENTITY", 1, 2)>>,
     <<Ent("a", "ENTITY", 0, 1), Ent(" a", "DISEASE", 0, 2)>>}

\* the loop that groups doc.ents by label
RECURSIVE GroupEntities(_, _)
GroupEntities(ents, entities) ==
    IF ents = <<>> THEN entities
    ELSE LET ent == Head(ents)
             sofar == IF ent.label \in DOMAIN entities THEN entities[ent.label] ELSE <<>>
         IN  GroupEntities(Tail(ents), DictSet(entities, ent.label, Append(sofar, ent)))

\* What the transcription service does with the audio
TranscriberOutcomes ==
    {[kind |-> "raises", text |-> <<>>], [kind |-> "error", text |-> <<>>]}
        \cup {[kind |-> IF t = <<>> THEN "empty" ELSE "text", text |-> t] : t \in Strings}

\* transcribe_audio: None (is_none) on an exception or an error status, else
\* the transcript text
transcribe_audio(outcome) ==
    IF outcome.kind = "raises" THEN [is_none |-> TRUE, text |-> <<>>]
    ELSE IF outcome.kind = "error" THEN [is_none |-> TRUE, text |-> <<>>]
    ELSE [is_none |-> FALSE, text |-> outcome.text]

\* What the question-generation service does with the prompt
GeminiOutcomes ==
    {[kind |-> "raises", text |-> <<>>]} \cup {[kind |-> "text", text |-> t] : t \in GeminiTexts}

MaxQuestions == 5

\* generate_questions' answer when it has no symptoms or no gaps to ask about
MoreInformationQuestion ==
    <<"P", "l", "e", "a", "s", "e", " ", "p", "r", "o", "v", "i", "d", "e",
      " ", "m", "o", "r", "e", " ", "i", "n", "f", "o", "r", "m", "a", "t",
      "i", "o", "n", " ", "a", "b", "o", "u", "t", " ", "y", "o", "u", "r",
      " ", "s", "y", "m", "p", "t", "o", "m", "s">>

\* generate_questions' substitute for an empty parse
OtherSymptomsQuestion ==
    <<"W", "h", "a", "t", " ", "o", "t", "h", "e", "r", " ", "s", "y", "m",
      "p", "t", "o", "m", "s", " ", "a", "r", "e", " ", "y", "o", "u", " ",
      "e", "x", "p", "e", "r", "i", "e", "n", "c", "i", "n", "g", "?">>

\* generate_questions' answer when the handler raises
UnableQuestion ==
    <<"U", "n", "a", "b", "l", "e", " ", "t", "o", " ", "g", "e", "n", "e",
      "r", "a", "t", "e", " ", "q", "u", "e", "s", "t", "i", "o", "n", "s",
      " ", "a", "t", " ", "t", "h", "i", "s", " ", "t", "i", "m", "e">>

TranscribeFailedMessage ==
    "Failed to transcribe audio. Check your AssemblyAI API key and internet connection."

----------------------------------------------------------------------------
(* State machine *)

\* What open() and json.load find at knowledge_base/symptoms.json: no file,
\* a file that is no JSON, or a JSON document, whatever its symptom mappings.
Documents ==
    {[kind |-> "missing", symptoms |-> <<>>], [kind |-> "malformed", symptoms |-> <<>>]}
        \cup {[kind |-> "json", symptoms |-> kb] : kb \in load_knowledge_base}

\* The module has not run its top-level statements yet.
Init ==
    /\ nlp = FALSE
    /\ knowledge_base = <<>>
    /\ pc = "Starting"
    /\ op = "none"
    /\ request = NoRequest
    /\ transcript = <<>>
    /\ detected_symptoms = <<>>
    /\ gaps = EmptyDict
    /\ response = NoResponse
    /\ calls = NoCalls
    /\ running = 1
    /\ threads = <<>>

\* The module's top-level statements: spacy.load succeeds or not, then
\* knowledge_base = load_knowledge_base(). open() and json.load raise on a
\* missing or unparsable file and the process ends before it serves anything;
\* any document json.load accepts becomes the knowledge base as it is.
Startup(model_found, document) ==
    /\ pc = "Starting"
    /\ nlp' = model_found
    /\ IF document.kind = "json"
       THEN /\ knowledge_base' = document.symptoms
            /\ pc' = "Ready"
       ELSE /\ knowledge_base' = knowledge_base
            /\ pc' = "Crashed"
    /\ UNCHANGED <<op, request, transcript, detected_symptoms, gaps, response, calls,
                   running, threads>>

\* A standalone handler runs from the request to its response in one step.
Finish(name, req, resp, ran) ==
    /\ pc' = "Done"
    /\ op' = name
    /\ request' = req
    /\ response' = resp
    /\ calls' = ran
    /\ UNCHANGED <<nlp, knowledge_base, transcript, detected_symptoms, gaps,
                   running, threads>>

\* extract_symptoms without the test  if not transcript
extract_symptoms_NoEmptyTest(req, ents) ==
    /\ pc = "Ready"
    /\ IF ~nlp
       THEN Finish("extract_symptoms", req,
                   Respond(500, [error |-> "spaCy model not loaded"]), NoCalls)
       ELSE IF ~req.is_json
       THEN Finish("extract_symptoms", req,
                   Respond(500, [success |-> FALSE, error |-> "no JSON body"]), NoCalls)
       ELSE LET text == Get(req.json, "transcript", <<>>)
            IN  Finish("extract_symptoms", req,
                       Respond(200, [success |-> TRUE,
                                     detected_symptoms |-> DetectSymptoms(knowledge_base, text),
                                     entities |-> GroupEntities(ents, EmptyDict),
                                     transcript |-> text]),
                       [NoCalls EXCEPT !.nlp = 1, !.detect = 1])

\* POST /extract
extract_symptoms(req, ents) ==
    /\ pc = "Ready"
    /\ IF ~nlp
       THEN Finish("extract_symptoms", req,
                   Respond(500, [error |-> "spaCy model not loaded"]), NoCalls)
       ELSE IF ~req.is_json
       THEN Finish("extract_symptoms", req,
                   Respond(500, [success |-> FALSE, error |-> "no JSON body"]), NoCalls)
       ELSE LET text == Get(req.json, "transcript", <<>>)
            IN  IF text = <<>>
                THEN Finish("extract_symptoms", req,
                            Respond(400, [error |-> "No transcript provided"]), NoCalls)
                ELSE Finish("extract_symptoms", req,
                            Respond(200, [success |-> TRUE,
                                          detected_symptoms |-> DetectSymptoms(knowledge_base, text),
                                          entities |-> GroupEntities(ents, EmptyDict),
                                          transcript |-> text]),
                            [NoCalls EXCEPT !.nlp = 1, !.detect = 1])

\* gap_analysis filtering  required  in place (required.remove(check)) instead
\* of building the list  missing
gap_analysis_FiltersInPlace(req) ==
    /\ pc = "Ready"
    /\ pc' = "Done"
    /\ op' = "gap_analysis"
    /\ request' = req
    /\ UNCHANGED <<nlp, transcript, detected_symptoms, gaps, running, threads>>
    /\ IF ~req.is_json
       THEN /\ response' = Respond(500, [success |-> FALSE, error |-> "no JSON body"])
            /\ calls' = NoCalls
            /\ UNCHANGED knowledge_base
       ELSE LET detected == Get(req.json, "detected_symptoms", <<>>)
                covered_fields == Get(req.json, "covered_fields", EmptyDict)
                loop == GapLoop(knowledge_base, detected, covered_fields, 1, EmptyDict, <<>>)
            IN  /\ calls' = [NoCalls EXCEPT !.gap = 1]
                /\ IF loop.raised
                   THEN /\ response' = Respond(500, [success |-> FALSE,
                                                     error |-> "'required_checks'"])
                        /\ UNCHANGED knowledge_base
                   ELSE /\ knowledge_base' =
                               [i \in 1..Len(knowledge_base) |->
                                   LET id == knowledge_base[i][1]
                                       symptom_data == knowledge_base[i][2]
                                   IN  IF id \in Range(detected)
                                          /\ "required_checks" \in DOMAIN symptom_data
                                       THEN <<id, [required_checks |->
                                                      Missing(symptom_data.required_checks,
                                                              Covered(covered_fields, id))]>>
                                       ELSE knowledge_base[i]]
                        /\ \E missing_checks \in ListOfSet(loop.missing_checks_list) :
                               response' = Respond(200, [success |-> TRUE,
                                                        gaps |-> loop.gaps,
                                                        missing_checks |-> missing_checks,
                                                        detected_symptoms |-> detected])

\* POST /gap-analysis
gap_analysis(req) ==
    /\ pc = "Ready"
    /\ IF ~req.is_json
       THEN Finish("gap_analysis", req,
                   Respond(500, [success |-> FALSE, error |-> "no JSON body"]), NoCalls)
       ELSE LET detected == Get(req.json, "detected_symptoms", <<>>)
                covered_fields == Get(req.json, "covered_fields", EmptyDict)
                loop == GapLoop(knowledge_base, detected, covered_fields, 1, EmptyDict, <<>>)
            IN  IF loop.raised
                THEN Finish("gap_analysis", req,
                            Respond(500, [success |-> FALSE, error |-> "'required_checks'"]),
                            [NoCalls EXCEPT !.gap = 1])
                ELSE \E missing_checks \in ListOfSet(loop.missing_checks_list) :
                        Finish("gap_analysis", req,
                               Respond(200, [success |-> TRUE,
                                             gaps |-> loop.gaps,
                                             missing_checks |-> missing_checks,
                                             detected_symptoms |-> detected]),
                               [NoCalls EXCEPT !.gap = 1])

\* the test with  and  in place of  or
NothingToAsk_BothEmpty(detected, g) == detected = <<>> /\ DOMAIN g = {}

\* if not detected_symptoms or not gaps
NothingToAsk(detected, g) == detected = <<>> \/ DOMAIN g = {}

\* POST /generate-questions
generate_questions(req, gemini) ==
    /\ pc = "Ready"
    /\ IF ~req.is_json
       THEN Finish("generate_questions", req,
                   Respond(200, [success |-> FALSE, error |-> "no JSON body",
                                 questions |-> <<UnableQuestion>>]),
                   NoCalls)
       ELSE LET detected == Get(req.json, "detected_symptoms", <<>>)
                g == Get(req.json, "gaps", EmptyDict)
            IN  IF NothingToAsk(detected, g)
                THEN Finish("generate_questions", req,
                            Respond(200, [success |-> TRUE,
                                          questions |-> <<MoreInformationQuestion>>]),
                            NoCalls)
                ELSE IF gemini.kind = "raises"
                THEN Finish("generate_questions", req,
                            Respond(200, [success |-> FALSE, error |-> "generate_content failed",
                                          questions |-> <<UnableQuestion>>]),
                            [NoCalls EXCEPT !.generate = 1, !.gemini = gemini.kind,
                                                !.gemini_text = gemini.text])
                ELSE LET parsed == ParseQuestions(gemini.text)
                         questions == IF parsed = <<>>
                                      THEN <<OtherSymptomsQuestion>>
                                      ELSE parsed
                     IN  Finish("generate_questions", req,
                                Respond(200, [success |-> TRUE,
                                              questions |-> Prefix(questions, MaxQuestions)]),
                                [NoCalls EXCEPT !.generate = 1, !.gemini = gemini.kind,
                                                !.gemini_text = gemini.text])

\* the symptom_record built from the request and the clock
SymptomRecord(data, now) ==
    [id |-> Get(data, "symptom_name", <<"u", "n", "k", "n", "o", "w", "n">>) \o <<"_">> \o now,
     timestamp |-> now,
     symptom_name |-> Get(data, "symptom_name", <<>>),
     duration |-> Get(data, "duration", ""),
     severity |-> Get(data, "severity", "None"),
     location |-> Get(data, "location", ""),
     characteristics |-> Get(data, "characteristics", ""),
     triggers |-> Get(data, "triggers", ""),
     relieving_factors |-> Get(data, "relieving_factors", ""),
     associated_symptoms |-> Get(data, "associated_symptoms", <<>>),
     onset |-> Get(data, "onset", ""),
     notes |-> Get(data, "notes", "")]

\* record_symptom without the test of data and symptom_name
record_symptom_NoNameTest(req, now) ==
    /\ pc = "Ready"
    /\ IF ~req.is_json
       THEN Finish("record_symptom", req,
                   Respond(500, [success |-> FALSE, error |-> "no JSON body"]), NoCalls)
       ELSE Finish("record_symptom", req,
                   Respond(200, [success |-> TRUE,
                                 symptom_record |-> SymptomRecord(req.json, now)]),
                   NoCalls)

\* POST /record-symptom
record_symptom(req, now) ==
    /\ pc = "Ready"
    /\ IF ~req.is_json \/ DOMAIN req.json = {} \/ "symptom_name" \notin DOMAIN req.json
       THEN Finish("record_symptom", req,
                   Respond(400, [error |-> "symptom_name required"]), NoCalls)
       ELSE Finish("record_symptom", req,
                   Respond(200, [success |-> TRUE,
                                 symptom_record |-> SymptomRecord(req.json, now)]),
                   NoCalls)

\* POST /process-interview, up to the call of transcribe_audio
process_interview(req) ==
    /\ pc = "Ready"
    /\ op' = "process_interview"
    /\ request' = req
    /\ calls' = NoCalls
    /\ IF "audio" \notin req.files
       THEN /\ pc' = "Rejected"
            /\ response' = Respond(400, [error |-> "No audio file provided"])
       ELSE /\ pc' = "Transcribing"
            /\ response' = NoResponse
    /\ UNCHANGED <<nlp, knowledge_base, transcript, detected_symptoms, gaps,
                   running, threads>>

\* Transcribing with the test  if transcript is None  in place of
\* if not transcript
Transcribing_NoneOnly(outcome) ==
    /\ pc = "Transcribing"
    /\ calls' = [calls EXCEPT !.transcribe = @ + 1, !.transcriber = outcome.kind]
    /\ LET result == transcribe_audio(outcome)
       IN  IF result.is_none
           THEN /\ pc' = "Failed"
                /\ response' = Respond(500, [success |-> FALSE, error |-> TranscribeFailedMessage])
                /\ UNCHANGED transcript
           ELSE /\ pc' = "Detecting"
                /\ transcript' = result.text
                /\ UNCHANGED response
    /\ UNCHANGED <<nlp, knowledge_base, op, request, detected_symptoms, gaps,
                   running, threads>>

\* Step 1: transcribe_audio returns, and the handler tests its result
Transcribing(outcome) ==
    /\ pc = "Transcribing"
    /\ calls' = [calls EXCEPT !.transcribe = @ + 1, !.transcriber = outcome.kind]
    /\ LET result == transcribe_audio(outcome)
       IN  IF result.is_none \/ result.text = <<>>
           THEN /\ pc' = "Failed"
                /\ response' = Respond(500, [success |-> FALSE, error |-> TranscribeFailedMessage])
                /\ UNCHANGED transcript
           ELSE /\ pc' = "Detecting"
                /\ transcript' = result.text
                /\ UNCHANGED response
    /\ UNCHANGED <<nlp, knowledge_base, op, request, detected_symptoms, gaps,
                   running, threads>>

\* Step 2: extract symptoms
Detecting ==
    /\ pc = "Detecting"
    /\ detected_symptoms' = DetectSymptoms(knowledge_base, transcript)
    /\ calls' = [calls EXCEPT !.detect = @ + 1]
    /\ pc' = "AnalyzingGaps"
    /\ UNCHANGED <<nlp, knowledge_base, op, request, transcript, gaps, response,
                   running, threads>>

\* Step 3: gap analysis; a KeyError reaches the handler's except clause
AnalyzingGaps ==
    /\ pc = "AnalyzingGaps"
    /\ calls' = [calls EXCEPT !.gap = @ + 1]
    /\ LET loop == InitialGapLoop(knowledge_base, detected_symptoms, 1, EmptyDict)
       IN  IF loop.raised
           THEN /\ pc' = "Failed"
                /\ response' = Respond(500, [success |-> FALSE, error |-> "'required_checks'"])
                /\ UNCHANGED gaps
           ELSE /\ pc' = "AwaitingQuestions"
                /\ gaps' = loop.gaps
                /\ UNCHANGED response
    /\ UNCHANGED <<nlp, knowledge_base, op, request, transcript, detected_symptoms,
                   running, threads>>

\* Step 4: generate_content returns or raises, the text is parsed and the
\* handler answers
AwaitingQuestions(gemini) ==
    /\ pc = "AwaitingQuestions"
    /\ calls' = [calls EXCEPT !.generate = @ + 1, !.gemini = gemini.kind,
                              !.gemini_text = gemini.text]
    /\ IF gemini.kind = "raises"
       THEN /\ pc' = "Failed"
            /\ response' = Respond(500, [success |-> FALSE, error |-> "generate_content failed"])
       ELSE LET questions == ParseQuestions(gemini.text)
            IN  /\ pc' = "Complete"
                /\ response' = Respond(200, [success |-> TRUE,
                                             transcript |-> transcript,
                                             detected_symptoms |-> detected_symptoms,
                                             diagnostic_gaps |-> gaps,
                                             gaps |-> gaps,
                                             suggested_questions |-> Prefix(questions, MaxQuestions)])
    /\ UNCHANGED <<nlp, knowledge_base, op, request, transcript, detected_symptoms, gaps,
                   running, threads>>

\* The response has gone out; the worker takes the next request.
Return ==
    /\ pc \in {"Done", "Rejected", "Failed", "Complete"}
    /\ pc' = "Ready"
    /\ op' = "none"
    /\ request' = NoRequest
    /\ transcript' = <<>>
    /\ detected_symptoms' = <<>>
    /\ gaps' = EmptyDict
    /\ response' = NoResponse
    /\ calls' = NoCalls
    /\ UNCHANGED <<nlp, knowledge_base, running, threads>>

----------------------------------------------------------------------------
(* Requests the callers send *)

ExtractRequests ==
    {NoJson, Json([other |-> 0])} \cup {Json([transcript |-> t]) : t \in Strings}

DetectedLists == ListsUpTo(CallerSymptoms, MaxDetected)

GapRequests ==
    {NoJson, Json([other |-> 0])}
        \cup {Json([detected_symptoms |-> d]) : d \in DetectedLists}
        \cup {Json([detected_symptoms |-> d, covered_fields |-> c]) :
                 d \in DetectedLists, c \in CoverageMaps}

QuestionRequests ==
    {NoJson, Json([other |-> 0])}
        \cup {Json([detected_symptoms |-> d, gaps |-> g]) :
                 d \in {<<>>, <<<<"a">>>>},
                 g \in {EmptyDict, [s \in {<<"a">>} |-> <<"duration">>]}}

InterviewRequests == {[files |-> {}], [files |-> {"audio"}]}

RecordRequests ==
    {NoJson, Json(EmptyDict), Json([other |-> 0]),
     Json([symptom_name |-> <<>>]), Json([symptom_name |-> <<"a">>]),
     Json([symptom_name |-> <<"a">>, duration |-> "3 days"])}

\* int(time.time()) and time.strftime, as digits
Times == {<<"1">>, <<"2">>}

Next ==
    \/ \E model_found \in BOOLEAN, document \in Documents : Startup(model_found, document)
    \/ \E req \in ExtractRequests, ents \in EntityLists : extract_symptoms(req, ents)
    \/ \E req \in GapRequests : gap_analysis(req)
    \/ \E req \in QuestionRequests, gemini \in GeminiOutcomes : generate_questions(req, gemini)
    \/ \E req \in RecordRequests, now \in Times : record_symptom(req, now)
    \/ \E req \in InterviewRequests : process_interview(req)
    \/ \E outcome \in TranscriberOutcomes : Transcribing(outcome)
    \/ Detecting
    \/ AnalyzingGaps
    \/ \E gemini \in GeminiOutcomes : AwaitingQuestions(gemini)
    \/ Return

Spec == Init /\ [][Next]_vars

----------------------------------------------------------------------------
(* Concurrent requests: app.run serves each request in a thread of its own.
   The variables pc .. calls belong to the thread that is executing; threads
   keeps what the other threads have in hand. *)

Workers == {1, 2}

Context ==
    [pc |-> pc, op |-> op, request |-> request, transcript |-> transcript,
     detected_symptoms |-> detected_symptoms, gaps |-> gaps,
     response |-> response, calls |-> calls]

IdleContext ==
    [pc |-> "Ready", op |-> "none", request |-> NoRequest, transcript |-> <<>>,
     detected_symptoms |-> <<>>, gaps |-> EmptyDict,
     response |-> NoResponse, calls |-> NoCalls]

\* The executing thread is suspended and thread t goes on where it stopped.
Switch(t) ==
    /\ t \in DOMAIN threads
    /\ t # running
    /\ running' = t
    /\ threads' = [threads EXCEPT ![running] = Context, ![t] = IdleContext]
    /\ pc' = threads[t].pc
    /\ op' = threads[t].op
    /\ request' = threads[t].request
    /\ transcript' = threads[t].transcript
    /\ detected_symptoms' = threads[t].detected_symptoms
    /\ gaps' = threads[t].gaps
    /\ response' = threads[t].response
    /\ calls' = threads[t].calls
    /\ UNCHANGED <<nlp, knowledge_base>>

\* Knowledge bases and inputs of the concurrent runs
SharedKnowledgeBases ==
    {<< <<<<"a">>, [required_checks |-> <<"duration", "severity">>]>>,
        <<<<"_", "a">>, [required_checks |-> <<"duration">>]>> >>,
     << <<<<"a">>, [required_checks |-> <<>>]>> >>}

SharedExtractRequests == {Json([transcript |-> <<" ", "A">>])}

SharedGapRequests ==
    {Json([detected_symptoms |-> << <<"a">>, UnknownSymptom >>,
           covered_fields |-> [s \in {<<"a">>} |-> <<"duration">>]]),
     Json([detected_symptoms |-> << <<"_", "a">>, <<"a">> >>])}

SharedQuestionRequests ==
    {Json([detected_symptoms |-> << <<"a">> >>, gaps |-> [s \in {<<"a">>} |-> <<"duration">>]])}

SharedTranscriberOutcomes ==
    {[kind |-> "error", text |-> <<>>],
     [kind |-> "text", text |-> <<"a">>],
     [kind |-> "text", text |-> <<" ", "A">>]}

SharedGeminiOutcomes ==
    {[kind |-> "raises", text |-> <<>>], [kind |-> "text", text |-> TextThree]}

\* The process has started and every thread waits for a request.
InitC ==
    /\ nlp \in BOOLEAN
    /\ knowledge_base \in SharedKnowledgeBases
    /\ pc = "Ready"
    /\ op = "none"
    /\ request = NoRequest
    /\ transcript = <<>>
    /\ detected_symptoms = <<>>
    /\ gaps = EmptyDict
    /\ response = NoResponse
    /\ calls = NoCalls
    /\ running = 1
    /\ threads = [t \in Workers |-> IdleContext]

NextC ==
    \/ \E req \in SharedExtractRequests, ents \in EntityLists : extract_symptoms(req, ents)
    \/ \E req \in SharedGapRequests : gap_analysis(req)
    \/ \E req \in SharedQuestionRequests, gemini \in SharedGeminiOutcomes :
           generate_questions(req, gemini)
    \/ \E req \in InterviewRequests : process_interview(req)
    \/ \E outcome \in SharedTranscriberOutcomes : Transcribing(outcome)
    \/ Detecting
    \/ AnalyzingGaps
    \/ \E gemini \in SharedGeminiOutcomes : AwaitingQuestions(gemini)
    \/ Return
    \/ \E t \in Workers : Switch(t)

SpecC == InitC /\ [][NextC]_vars

----------------------------------------------------------------------------
(* Properties of the interview pipeline's failure policy *)

Succeeded == response.status = 200 /\ "success" \in DOMAIN response.body /\ response.body.success

Answered == pc \in {"Done", "Rejected", "Failed", "Complete"}

\* C1: in process_interview, when the question-generation collaborator raises
\* after a successful transcription, the pipeline reaches Complete and returns
\* success=true with the transcript, the detected symptoms, the gap map and a
\* question list of exactly one fallback question.
C1_GenerationFailureMasked ==
    (op = "process_interview" /\ calls.gemini = "raises") =>
        /\ pc = "Complete"
        /\ Succeeded
        /\ response.body.transcript = transcript
        /\ response.body.detected_symptoms = detected_symptoms
        /\ response.body.gaps = gaps
        /\ Len(response.body.suggested_questions) = 1

\* C2: once transcription has returned a non-empty transcript, no behaviour of
\* the Detecting, AnalyzingGaps or AwaitingQuestions stages ends the request
\* in a failure response.
C2_FailedOnlyFromTranscribing ==
    (op = "process_interview" /\ calls.transcriber = "text") =>
        (pc # "Failed" /\ (Answered => Succeeded))

\* C3: transcription is the first stage run; when the transcription
\* collaborator fails or yields an empty result the pipeline ends in Failed
\* with success=false and a reason, without running symptom detection, gap
\* analysis or the question-generation call, and without calling the
\* transcription collaborator a second time.
C3_TranscriptionFailureIsFatal ==
    op = "process_interview" =>
        /\ calls.transcribe <= 1
        /\ (calls.detect > 0 \/ calls.gap > 0 \/ calls.generate > 0) =>
               (calls.transcribe = 1 /\ calls.transcriber = "text")
        /\ calls.transcriber \in {"raises", "error", "empty"} =>
               /\ pc = "Failed"
               /\ response.status = 500
               /\ response.body.success = FALSE
               /\ response.body.error = TranscribeFailedMessage
               /\ calls.transcribe = 1
               /\ calls.detect = 0 /\ calls.gap = 0 /\ calls.generate = 0
               /\ detected_symptoms = <<>> /\ gaps = EmptyDict

C3_Witness ==
    op = "process_interview" /\ pc = "Failed" /\ calls.transcriber = "empty"

\* C4: with the NLP model unavailable, extract_symptoms over a non-empty
\* transcript succeeds via the keyword path: it returns the keyword-matched
\* detected symptom list, with no entities structure and no error.
C4_DetectionWithoutNlp ==
    (/\ op = "extract_symptoms"
     /\ ~nlp
     /\ request.is_json
     /\ Get(request.json, "transcript", <<>>) # <<>>) =>
        /\ Succeeded
        /\ "error" \notin DOMAIN response.body
        /\ "entities" \notin DOMAIN response.body
        /\ response.body.detected_symptoms
               = DetectSymptoms(knowledge_base, request.json.transcript)

----------------------------------------------------------------------------
(* Properties of keyword detection *)

\* The substring test, stated position by position.
PhraseOf(s) == [i \in 1..Len(s) |-> IF s[i] = "_" THEN " " ELSE s[i]]

Lowercase(t) == [i \in 1..Len(t) |-> IF t[i] = "A" THEN "a" ELSE t[i]]

OccursIn(p, t) ==
    \E off \in 0..(Len(t) - Len(p)) : \A k \in 1..Len(p) : t[off + k] = p[k]

KeyPosition(kb, s) == CHOOSE i \in 1..Len(kb) : kb[i][1] = s

ExactDetection(T, D, K) ==
    /\ \A i \in 1..Len(K) :
           ListIn(K[i][1], D) <=> OccursIn(PhraseOf(K[i][1]), Lowercase(T))
    /\ \A i \in 1..Len(D) : D[i] \in Keys(K)
    /\ \A i, j \in 1..Len(D) : i < j => KeyPosition(K, D[i]) < KeyPosition(K, D[j])

ExtractAnswered == op = "extract_symptoms" /\ Succeeded

\* process_interview has run its detection step
InterviewDetected == op = "process_interview" /\ calls.detect = 1

\* C5: a symptom id of the knowledge base is in the detected list iff its id
\* with underscores replaced by spaces occurs as a contiguous substring of
\* the lowercased transcript; the list holds each such id once, in the
\* knowledge base's iteration order.
C5_KeywordDetectionExact ==
    /\ ExtractAnswered =>
           /\ response.body.transcript = request.json.transcript
           /\ ExactDetection(response.body.transcript,
                             response.body.detected_symptoms, knowledge_base)
    /\ InterviewDetected =>
           ExactDetection(transcript, detected_symptoms, knowledge_base)
    /\ (op = "process_interview" /\ pc = "Complete") =>
           /\ response.body.transcript = transcript
           /\ response.body.detected_symptoms = detected_symptoms

C5_Witness ==
    /\ op = "process_interview" /\ pc = "Complete"
    /\ transcript = <<" ", "A">>
    /\ response.body.detected_symptoms = << <<"_", "a">>, <<"a">> >>

EmptyTranscriptSent ==
    op = "extract_symptoms" /\ request.is_json /\ Get(request.json, "transcript", <<>>) = <<>>

\* C6 as stated: the detected list is a subset of the knowledge base's ids, and
\* an empty transcript yields an empty detected list rather than an error.
C6_EmptyTranscriptYieldsEmptySet ==
    /\ ExtractAnswered => Range(response.body.detected_symptoms) \subseteq Keys(knowledge_base)
    /\ (EmptyTranscriptSent /\ nlp /\ "transcript" \in DOMAIN request.json) =>
           (Succeeded /\ response.body.detected_symptoms = <<>>)

\* C6, amended: every detected list returned is a subset of the knowledge
\* base's ids and a non-empty transcript never makes the keyword scan fail;
\* an empty transcript is never scanned: extract_symptoms answers it with a
\* failure response without a detected list, the pipeline ends in Failed
\* before detection; an empty detected list yields empty gaps and an empty
\* aggregate.
C6_DetectionWithinKnowledgeBase ==
    /\ ExtractAnswered => Range(response.body.detected_symptoms) \subseteq Keys(knowledge_base)
    /\ InterviewDetected => Range(detected_symptoms) \subseteq Keys(knowledge_base)
    /\ EmptyTranscriptSent =>
           /\ response.status \in {400, 500}
           /\ "detected_symptoms" \notin DOMAIN response.body
           /\ "error" \in DOMAIN response.body
           /\ calls.detect = 0
    /\ (op = "extract_symptoms" /\ nlp /\ request.is_json /\ ~EmptyTranscriptSent) => Succeeded
    /\ (op = "process_interview" /\ calls.transcriber = "empty") =>
           (pc = "Failed" /\ calls.detect = 0)
    /\ (op = "process_interview" /\ calls.transcriber = "text" /\ pc # "Detecting") =>
           calls.detect = 1
    /\ (op = "gap_analysis" /\ request.is_json
            /\ Get(request.json, "detected_symptoms", <<>>) = <<>>) =>
           /\ Succeeded
           /\ DOMAIN response.body.gaps = {}
           /\ response.body.missing_checks = <<>>

C6_Witness ==
    /\ EmptyTranscriptSent /\ nlp
    /\ "transcript" \in DOMAIN request.json
    /\ response.status = 400

----------------------------------------------------------------------------
(* Properties of gap analysis *)

GapAnswered == op = "gap_analysis" /\ Succeeded

SentDetected == Get(request.json, "detected_symptoms", <<>>)

SentCoverage == Get(request.json, "covered_fields", EmptyDict)

\* process_interview has built its gap map
InterviewGaps == op = "process_interview" /\ calls.gap = 1 /\ pc # "Failed"

RequiredChecks(s) == Lookup(knowledge_base, s).required_checks

CoverageOf(s) == IF s \in DOMAIN SentCoverage THEN Range(SentCoverage[s]) ELSE {}

\* C7 as stated: with empty coverage every detected symptom of the knowledge
\* base has a gap entry equal to its required_checks, in gap_analysis and in
\* the pipeline's gap step.
C7_EmptyCoverageGivesAllChecks ==
    /\ (GapAnswered /\ DOMAIN SentCoverage = {}) =>
           \A s \in Range(SentDetected) \cap Keys(knowledge_base) :
               /\ s \in DOMAIN response.body.gaps
               /\ response.body.gaps[s] = RequiredChecks(s)
    /\ InterviewGaps =>
           \A s \in Range(detected_symptoms) \cap Keys(knowledge_base) :
               s \in DOMAIN gaps /\ gaps[s] = RequiredChecks(s)

\* C7, amended: with empty coverage every detected symptom of the knowledge
\* base that has at least one required check has a gap entry equal to its
\* required_checks, same elements in the same order, in gap_analysis and in
\* the pipeline's gap step; for a symptom without required checks
\* gap_analysis records no entry and the pipeline records the empty list.
C7_EmptyCoverageGivesDeclaredChecks ==
    /\ (GapAnswered /\ DOMAIN SentCoverage = {}) =>
           \A s \in Range(SentDetected) \cap Keys(knowledge_base) :
               IF RequiredChecks(s) # <<>>
               THEN /\ s \in DOMAIN response.body.gaps
                    /\ response.body.gaps[s] = RequiredChecks(s)
               ELSE s \notin DOMAIN response.body.gaps
    /\ InterviewGaps =>
           \A s \in Range(detected_symptoms) \cap Keys(knowledge_base) :
               s \in DOMAIN gaps /\ gaps[s] = RequiredChecks(s)
    /\ (op = "process_interview" /\ pc = "Complete") =>
           (response.body.gaps = gaps /\ response.body.diagnostic_gaps = gaps)

C7_Witness ==
    /\ GapAnswered /\ DOMAIN SentCoverage = {}
    /\ <<"a">> \in DOMAIN response.body.gaps
    /\ response.body.gaps[<<"a">>] = <<"duration", "severity">>
    /\ \E s \in Range(SentDetected) \cap Keys(knowledge_base) : RequiredChecks(s) = <<>>

Complete(s) == \A i \in 1..Len(RequiredChecks(s)) : RequiredChecks(s)[i] \in CoverageOf(s)

\* C8: a detected symptom with no required checks, or whose required checks
\* are all in its coverage entry, is not a key of the gap map and adds no id
\* to the aggregate list, in gap_analysis and in the pipeline's gap step.
C8_CompleteSymptomsContributeNothing ==
    /\ GapAnswered =>
           /\ \A s \in Range(SentDetected) \cap Keys(knowledge_base) :
                  Complete(s) => s \notin DOMAIN response.body.gaps
           /\ \A c \in Range(response.body.missing_checks) :
                  \E s \in DOMAIN response.body.gaps : c \in Range(response.body.gaps[s])
    /\ InterviewGaps =>
           \A s \in Range(detected_symptoms) \cap Keys(knowledge_base) :
               RequiredChecks(s) = <<>> => s \notin DOMAIN gaps

\* C9: every gap entry gaps[s] of gap_analysis is required_checks of s with
\* the checks of the coverage entry of s removed (no entry: nothing removed),
\* in the declared order; each of its ids is a required check of s and none
\* is covered.
C9_GapIsRequiredMinusCovered ==
    GapAnswered =>
        /\ \A s \in DOMAIN response.body.gaps :
               LET entry == response.body.gaps[s]
               IN  /\ s \in Keys(knowledge_base)
                   /\ entry = SelectSeq(RequiredChecks(s), LAMBDA c : c \notin CoverageOf(s))
                   /\ \A i \in 1..Len(entry) :
                          entry[i] \in Range(RequiredChecks(s)) /\ entry[i] \notin CoverageOf(s)
        /\ \A s \in Range(SentDetected) \cap Keys(knowledge_base) :
               ~Complete(s) => s \in DOMAIN response.body.gaps

C9_Witness ==
    /\ GapAnswered
    /\ <<"a">> \in DOMAIN SentCoverage
    /\ SentCoverage[<<"a">>] = <<"duration">>
    /\ <<"a">> \in DOMAIN response.body.gaps
    /\ response.body.gaps[<<"a">>] = <<"severity">>

\* C10: the keys of every gap map are detected symptoms that the knowledge
\* base holds; a detected symptom the knowledge base does not hold is no key
\* of the gap map, causes no error, and is still in the returned
\* detected_symptoms list.
C10_GapKeysWithinKnowledgeBase ==
    /\ GapAnswered =>
           /\ DOMAIN response.body.gaps \subseteq (Range(SentDetected) \cap Keys(knowledge_base))
           /\ response.body.detected_symptoms = SentDetected
    /\ (op = "gap_analysis" /\ request.is_json
            /\ \A s \in Range(SentDetected) \cap Keys(knowledge_base) :
                   "required_checks" \in DOMAIN Lookup(knowledge_base, s))
           => Succeeded
    /\ InterviewGaps =>
           DOMAIN gaps \subseteq (Range(detected_symptoms) \cap Keys(knowledge_base))

C10_Witness ==
    /\ GapAnswered
    /\ UnknownSymptom \in Range(response.body.detected_symptoms)
    /\ DOMAIN response.body.gaps # {}

\* C11: the aggregate missing_checks list of gap_analysis has no duplicate
\* ids and is, as a set, the union of all gap entries, also when two detected
\* symptoms share a check and when the detected list repeats a symptom.
C11_AggregateIsDeduplicatedUnion ==
    GapAnswered =>
        LET aggregate == response.body.missing_checks
        IN  /\ \A i, j \in 1..Len(aggregate) : aggregate[i] = aggregate[j] => i = j
            /\ Range(aggregate)
                   = UNION {Range(response.body.gaps[s]) : s \in DOMAIN response.body.gaps}

\* two detected symptoms share a check
C11_Witness ==
    /\ GapAnswered
    /\ Cardinality(DOMAIN response.body.gaps) = 2
    /\ \A s \in DOMAIN response.body.gaps : "duration" \in Range(response.body.gaps[s])
    /\ Len(response.body.missing_checks) = 2

----------------------------------------------------------------------------
(* Properties of the question list *)

\* the number of digits a line starts with
RECURSIVE LeadingDigits(_)
LeadingDigits(line) ==
    IF line # <<>> /\ Head(line) \in Digits THEN 1 + LeadingDigits(Tail(line)) ELSE 0

\* the line starts with a number followed by a full stop
HasNumberPrefix(line) ==
    LET k == LeadingDigits(line)
    IN  k >= 1 /\ Len(line) > k /\ line[k + 1] = "."

WithoutNumberPrefix(line) ==
    IF HasNumberPrefix(line)
    THEN strip(SubSeq(line, LeadingDigits(line) + 2, Len(line)))
    ELSE line

RECURSIVE NumberedLines(_)
NumberedLines(lines) ==
    IF lines = <<>> THEN <<>>
    ELSE LET line == strip(Head(lines))
         IN  (IF Len(line) > 5 THEN <<WithoutNumberPrefix(line)>> ELSE <<>>)
                 \o NumberedLines(Tail(lines))

\* the question list as the interface describes it
DescribedQuestions(text) == Prefix(NumberedLines(split(text, "\n")), MaxQuestions)

QuestionsAnswered == op = "generate_questions" /\ Succeeded /\ calls.gemini = "text"

InterviewAnswered == op = "process_interview" /\ pc = "Complete"

\* C12: the question list parsed from the service's text is the ordered list
\* of its non-empty lines longer than 5 characters, each with a leading
\* numeric "N." prefix stripped if present and otherwise unchanged, truncated
\* to 5 questions; every question list returned has at most 5 questions.
C12_QuestionsAreNumberedLines ==
    /\ InterviewAnswered =>
           /\ Len(response.body.suggested_questions) <= MaxQuestions
           /\ response.body.suggested_questions = DescribedQuestions(calls.gemini_text)
    /\ QuestionsAnswered =>
           /\ Len(response.body.questions) <= MaxQuestions
           /\ DescribedQuestions(calls.gemini_text) # <<>> =>
                  response.body.questions = DescribedQuestions(calls.gemini_text)

\* C13: when parsing the service's text yields zero questions a single
\* fallback question is substituted, so the question list returned by
\* generate_questions and by process_interview is never empty.
C13_QuestionListNeverEmpty ==
    /\ QuestionsAnswered =>
           /\ response.body.questions # <<>>
           /\ ParseQuestions(calls.gemini_text) = <<>> => Len(response.body.questions) = 1
    /\ InterviewAnswered =>
           /\ response.body.suggested_questions # <<>>
           /\ ParseQuestions(calls.gemini_text) = <<>> =>
                  Len(response.body.suggested_questions) = 1

----------------------------------------------------------------------------
(* Properties of startup and request validation *)

SchemaConforming(kb) == \A i \in 1..Len(kb) : "required_checks" \in DOMAIN kb[i][2]

SymptomHandlers == {"extract_symptoms", "gap_analysis", "generate_questions", "process_interview"}

\* C14: no symptom-related request is served with a knowledge base that is
\* missing, malformed or schema-violating: the process serves only when every
\* symptom maps to a mapping that contains a required_checks list.
C14_ServesOnlyValidKnowledgeBase ==
    /\ pc = "Crashed" => (op = "none" /\ knowledge_base = <<>>)
    /\ (op \in SymptomHandlers /\ Answered) => SchemaConforming(knowledge_base)

\* a JSON request that lacks the field
Lacks(field) == request.is_json /\ field \notin DOMAIN request.json

Rejected ==
    /\ response.status \in {400, 500}
    /\ "error" \in DOMAIN response.body
    /\ ~Succeeded
    /\ calls.detect = 0 /\ calls.gap = 0

\* C15 as stated: a request without its required field (transcript text for
\* detection, detected-symptom list for gap analysis, symptom name for
\* recording, audio for the pipeline) is answered at once with a failure and
\* reaches neither detection nor gap analysis.
C15_MissingFieldRejected ==
    /\ (op = "extract_symptoms" /\ Lacks("transcript")) => Rejected
    /\ (op = "gap_analysis" /\ Lacks("detected_symptoms")) => Rejected
    /\ (op = "record_symptom" /\ Lacks("symptom_name")) => Rejected
    /\ (op = "process_interview" /\ "audio" \notin request.files) => Rejected

\* C15, amended: a request without transcript text for detection, without a
\* symptom name for recording or without audio for the pipeline is answered
\* at once with a failure and reaches neither detection nor gap analysis; a
\* gap-analysis request without a detected-symptom list is analysed as the
\* empty list and answered with success, empty gaps and an empty aggregate.
C15_MissingFieldHandled ==
    /\ (op = "extract_symptoms" /\ Lacks("transcript")) => Rejected
    /\ (op = "record_symptom" /\ Lacks("symptom_name")) =>
           (Rejected /\ response.status = 400
               /\ "symptom_record" \notin DOMAIN response.body)
    /\ (op = "process_interview" /\ "audio" \notin request.files) =>
           (Rejected /\ response.status = 400 /\ pc = "Rejected"
               /\ calls.transcribe = 0 /\ calls.generate = 0)
    /\ (op = "gap_analysis" /\ Lacks("detected_symptoms")) =>
           /\ Succeeded
           /\ response.body.detected_symptoms = <<>>
           /\ DOMAIN response.body.gaps = {}
           /\ response.body.missing_checks = <<>>

C15_Witness ==
    /\ op = "record_symptom" /\ Lacks("symptom_name")
    /\ "other" \in DOMAIN request.json
    /\ response.status = 400

SentGaps == Get(request.json, "gaps", EmptyDict)

\* C17: generate_questions given an empty detected-symptom list or an empty
\* gap map returns success with the one fixed question asking for more
\* information and does not call the question-generation collaborator; the
\* collaborator is called only when both are non-empty.
C17_NoCallWithoutSymptomsOrGaps ==
    op = "generate_questions" =>
        /\ (request.is_json /\ (SentDetected = <<>> \/ DOMAIN SentGaps = {})) =>
               /\ Succeeded
               /\ response.body.questions = <<MoreInformationQuestion>>
               /\ calls.generate = 0 /\ calls.gemini = "none"
        /\ calls.generate > 0 =>
               (request.is_json /\ SentDetected # <<>> /\ DOMAIN SentGaps # {}
                   /\ calls.generate = 1)

\* symptoms were detected, but the gap map is empty
C17_Witness ==
    /\ op = "generate_questions" /\ request.is_json
    /\ SentDetected # <<>> /\ "gaps" \in DOMAIN request.json /\ DOMAIN SentGaps = {}
    /\ response.body.questions = <<MoreInformationQuestion>>

----------------------------------------------------------------------------
(* Properties of concurrent requests *)

\* what thread t has in hand
Ctx(t) == IF t = running THEN Context ELSE threads[t]

CtxSucceeded(c) ==
    c.response.status = 200 /\ "success" \in DOMAIN c.response.body /\ c.response.body.success

\* The request in context c is where, and answered as, it would be had it
\* run alone on its inputs and its collaborators' responses.
AsAlone(c) ==
    /\ (c.op = "extract_symptoms" /\ CtxSucceeded(c)) =>
           c.response.body.detected_symptoms
               = DetectSymptoms(knowledge_base, c.request.json.transcript)
    /\ (c.op = "gap_analysis" /\ c.request.is_json) =>
           LET detected == Get(c.request.json, "detected_symptoms", <<>>)
               coverage == Get(c.request.json, "covered_fields", EmptyDict)
               loop == GapLoop(knowledge_base, detected, coverage, 1, EmptyDict, <<>>)
           IN  /\ CtxSucceeded(c) <=> ~loop.raised
               /\ CtxSucceeded(c) =>
                      /\ c.response.body.gaps = loop.gaps
                      /\ Range(c.response.body.missing_checks) = Range(loop.missing_checks_list)
                      /\ c.response.body.detected_symptoms = detected
    /\ (c.op = "generate_questions" /\ c.calls.gemini = "text") =>
           LET parsed == ParseQuestions(c.calls.gemini_text)
           IN  c.response.body.questions
                   = Prefix(IF parsed = <<>> THEN <<OtherSymptomsQuestion>> ELSE parsed,
                            MaxQuestions)
    /\ (c.op = "process_interview" /\ c.calls.detect = 1) =>
           c.detected_symptoms = DetectSymptoms(knowledge_base, c.transcript)
    /\ (c.op = "process_interview" /\ c.calls.gap = 1 /\ c.pc # "Failed") =>
           c.gaps = InitialGapLoop(knowledge_base, c.detected_symptoms, 1, EmptyDict).gaps
    /\ (c.op = "process_interview" /\ c.pc = "Complete") =>
           /\ c.response.body.transcript = c.transcript
           /\ c.response.body.detected_symptoms = DetectSymptoms(knowledge_base, c.transcript)
           /\ c.response.body.gaps
                  = InitialGapLoop(knowledge_base,
                                   DetectSymptoms(knowledge_base, c.transcript), 1, EmptyDict).gaps
           /\ c.response.body.suggested_questions
                  = Prefix(ParseQuestions(c.calls.gemini_text), MaxQuestions)

\* no step writes the knowledge base or the NLP capability
SharedStateReadOnly == knowledge_base' = knowledge_base /\ nlp' = nlp

\* a request in progress keeps the body (detected list, coverage map) it came with
RequestReadOnly ==
    \A t \in Workers :
        (Ctx(t).pc # "Ready" /\ Ctx(t)'.pc # "Ready") => Ctx(t)'.request = Ctx(t).request

\* C16: under any interleaving of concurrent requests no handler modifies the
\* loaded knowledge base or the caller's coverage map, and every request's
\* result is the one it would produce run alone on the same inputs and
\* collaborator responses.
C16_RequestsIsolated ==
    /\ [](\A t \in Workers : AsAlone(Ctx(t)))
    /\ [][SharedStateReadOnly /\ RequestReadOnly]_vars

\* two pipeline requests interleaved: one is answered while the other, with
\* a different transcript, stands between detection and gap analysis
C16_Witness ==
    /\ DOMAIN threads = Workers
    /\ \E t, u \in Workers :
           /\ Ctx(t).op = "process_interview" /\ Ctx(t).pc = "Complete"
           /\ Ctx(u).op = "process_interview" /\ Ctx(u).pc = "AnalyzingGaps"
           /\ Ctx(t).transcript # Ctx(u).transcript
           /\ Ctx(t).detected_symptoms # Ctx(u).detected_symptoms

====
